---- MODULE Spec2Model ----
(***************************************************************************)
(* Model of package comm (jahkeup/comm): MarshalArgs turns a value into    *)
(* an ordered list of command line tokens, driven by the `comm:"..."`      *)
(* struct tag of each field.                                               *)
(*                                                                         *)
(* Strings are sequences of one-character strings, so that the tag parser  *)
(* (Split, SplitN, HasPrefix, HasSuffix) and the token assembly (Join,     *)
(* concatenation) are computed character by character.                     *)
(*                                                                         *)
(* The repository holds two revisions of marshal.go.  `build` selects the  *)
(* revision a behaviour runs: "part_000" is src/unnamed/part_000 (tags     *)
(* with omitempty and true=/false=), "marshal_go" is src/marshal.go.       *)
(***************************************************************************)
EXTENDS Integers, Sequences, FiniteSets, TLC

VARIABLES build, ctx, data, cur, pc, i, marshaledArgs, calls, last, result

vars == <<build, ctx, data, cur, pc, i, marshaledArgs, calls, last, result>>

(***************************************************************************)
(* Bounds of the explored inputs.                                          *)
(***************************************************************************)
MaxLen == 2
MaxTagElems == 2
MaxFields == 2

(***************************************************************************)
(* package strings                                                         *)
(***************************************************************************)
HasPrefix(s, p) == Len(s) >= Len(p) /\ SubSeq(s, 1, Len(p)) = p

HasSuffix(s, p) == Len(s) >= Len(p) /\ SubSeq(s, Len(s) - Len(p) + 1, Len(s)) = p

\* index of the first occurrence of character c in s, 0 when there is none
Index(s, c) ==
  IF \E k \in 1..Len(s) : s[k] = c
  THEN CHOOSE k \in 1..Len(s) : s[k] = c /\ \A j \in 1..(k - 1) : s[j] # c
  ELSE 0

RECURSIVE Split(_, _)
Split(s, c) ==
  LET k == Index(s, c) IN
  IF k = 0 THEN <<s>>
  ELSE <<SubSeq(s, 1, k - 1)>> \o Split(SubSeq(s, k + 1, Len(s)), c)

\* strings.SplitN(s, c, 2)
SplitN(s, c) ==
  LET k == Index(s, c) IN
  IF k = 0 THEN <<s>>
  ELSE <<SubSeq(s, 1, k - 1), SubSeq(s, k + 1, Len(s))>>

RECURSIVE Join(_, _)
Join(elems, sep) ==
  IF Len(elems) = 0 THEN <<>>
  ELSE IF Len(elems) = 1 THEN elems[1]
  ELSE elems[1] \o sep \o Join(Tail(elems), sep)

\* strconv.FormatBool
FormatBool(b) == IF b THEN <<"t", "r", "u", "e">> ELSE <<"f", "a", "l", "s", "e">>

(***************************************************************************)
(* ptr helpers: a *string is [set, v]; F of a nil pointer is the zero      *)
(* value "".                                                               *)
(***************************************************************************)
NilP == [set |-> FALSE, v |-> <<>>]

P(value) == [set |-> TRUE, v |-> value]

F(p) == IF p.set THEN p.v ELSE <<>>

\* a nil *bool
NilPB == [set |-> FALSE, v |-> FALSE]

(***************************************************************************)
(* Values (the dynamic type and content of an `any`).                      *)
(*   "nil"      the nil interface                                          *)
(*   "string"   string            "pstring"  *string                       *)
(*   "bool"     bool              "pbool"    *bool                         *)
(*   "strings"  []string          "pstrings" []*string                     *)
(*   "obj"      a value of any other type: its reflect.Kind, its method    *)
(*              set and what each method returns, its fields (struct) or   *)
(*              target (pointer).                                          *)
(***************************************************************************)
NilValue == [t |-> "nil"]

StringV(s) == [t |-> "string", s |-> s]

PStringV(p) == [t |-> "pstring", p |-> p]

BoolV(b) == [t |-> "bool", b |-> b]

\* pb is [set, v] with v a BOOLEAN
PBoolV(pb) == [t |-> "pbool", pb |-> pb]

StringsV(isnil, elems) == [t |-> "strings", isnil |-> isnil, elems |-> elems]

\* pelems is a sequence of *string
PStringsV(isnil, pelems) == [t |-> "pstrings", isnil |-> isnil, pelems |-> pelems]

NoErr == [e |-> "nil"]

Obj(kind) ==
  [t |-> "obj", kind |-> kind, methods |-> {}, isnil |-> FALSE,
   fields |-> <<>>, elem |-> NilValue,
   ma |-> [id |-> "none", args |-> <<>>, err |-> NoErr],
   text |-> [text |-> <<>>, err |-> NoErr],
   str |-> <<>>, isEmpty |-> FALSE, isZero |-> FALSE]

Implements(d, method) == d.t = "obj" /\ method \in d.methods

\* a struct field: its declared name, whether it is exported, its tag and value
Field(name, exported, tag, val) ==
  [name |-> name, exported |-> exported, tag |-> tag, val |-> val]

(***************************************************************************)
(* Errors and results.  A result is what a call returns, ([]string, error),*)
(* or the fact that it panicked, together with the MarshalArgs methods it  *)
(* invoked on the way (in order, each with the context it was given).      *)
(***************************************************************************)
ErrUnsupported == [e |-> "unsupported type(s)"]

ErrNotStruct == [e |-> "not a struct value"]

MarshalStructFieldError(name, num, err) ==
  [e |-> "MarshalStructFieldError", FieldName |-> name, FieldNum |-> num, Err |-> err]

Unwrap(e) == e.Err

Ok(toks, cl) == [kind |-> "ok", toks |-> toks, err |-> NoErr, calls |-> cl]

Fail(err, cl) == [kind |-> "err", toks |-> <<>>, err |-> err, calls |-> cl]

Panic(cl) == [kind |-> "panic", toks |-> <<>>, err |-> NoErr, calls |-> cl]

(***************************************************************************)
(* fieldSpec and parseSpec                                                 *)
(***************************************************************************)
fieldSpec ==
  [OmitField |-> FALSE, OmitEmpty |-> FALSE, SingleArgc |-> NilP,
   Prepend |-> <<>>, Append |-> <<>>, Separator |-> NilP,
   BoolTrue |-> NilP, BoolFalse |-> NilP]

\* one iteration of the key/value loop of parseSpec
scanElement(parsed, element) ==
  LET kvparts == SplitN(element, "=") IN
  IF Len(kvparts) = 1
  THEN IF kvparts[1] = <<"o", "m", "i", "t", "e", "m", "p", "t", "y">>
       THEN [parsed EXCEPT !.OmitEmpty = TRUE]
       ELSE parsed
  ELSE LET k == kvparts[1]
           v == kvparts[2]
       IN IF k = <<"t", "r", "u", "e">> THEN [parsed EXCEPT !.BoolTrue = P(v)]
          ELSE IF k = <<"f", "a", "l", "s", "e">> THEN [parsed EXCEPT !.BoolFalse = P(v)]
          ELSE parsed

RECURSIVE scanElements(_, _, _)
scanElements(parsed, specElements, n) ==
  IF n > Len(specElements) THEN parsed
  ELSE scanElements(scanElement(parsed, specElements[n]), specElements, n + 1)

\* parseSpec of src/marshal.go: only the first element is looked at
parseSpec_old(spec) ==
  IF spec = <<>> THEN fieldSpec
  ELSE IF spec = <<"-">> \/ HasPrefix(spec, <<"-", ",">>)
  THEN [fieldSpec EXCEPT !.OmitField = TRUE]
  ELSE LET first == Split(spec, ",")[1] IN
       IF HasPrefix(first, <<"-">>)
       THEN IF HasSuffix(first, <<"=">>)
            THEN [fieldSpec EXCEPT !.SingleArgc = P(first)]
            ELSE [fieldSpec EXCEPT !.Prepend = <<first>>]
       ELSE fieldSpec

parseSpec(spec) ==
  IF build = "marshal_go" THEN parseSpec_old(spec)
  ELSE IF spec = <<>> THEN fieldSpec
  ELSE IF spec = <<"-">> \/ HasPrefix(spec, <<"-", ",">>)
  THEN [fieldSpec EXCEPT !.OmitField = TRUE]
  ELSE LET specElements == Split(spec, ",")
           first == specElements[1]
           parsed == IF HasPrefix(first, <<"-">>)
                     THEN IF HasSuffix(first, <<"=">>)
                          THEN [fieldSpec EXCEPT !.SingleArgc = P(first)]
                          ELSE [fieldSpec EXCEPT !.Prepend = <<first>>]
                     ELSE fieldSpec
       IN scanElements(parsed, specElements, 1)

(***************************************************************************)
(* marshalArgs: the type switch, then the reflect.Kind switch.             *)
(***************************************************************************)
\* Category with the reflect.Kind switch tried before the type switch
Category_kindFirst(d) ==
  IF d.t = "nil" THEN "nil"
  ELSE IF d.t = "obj" /\ d.kind = "struct" THEN "struct"
  ELSE IF d.t = "obj" /\ d.kind = "ptr" THEN "ptr"
  ELSE IF Implements(d, "MarshalArgs") THEN "ArgsMarshaler"
  ELSE IF d.t \in {"string", "pstring", "bool", "pbool", "strings", "pstrings"} THEN d.t
  ELSE IF Implements(d, "MarshalText") THEN "TextMarshaler"
  ELSE IF Implements(d, "String") THEN "Stringer"
  ELSE "unsupported"

\* which case of marshalArgs a value takes
Category(d) ==
  IF d.t = "nil" THEN "nil"
  ELSE IF Implements(d, "MarshalArgs") THEN "ArgsMarshaler"
  ELSE IF d.t \in {"string", "pstring", "bool", "pbool", "strings", "pstrings"} THEN d.t
  ELSE IF Implements(d, "MarshalText") THEN "TextMarshaler"
  ELSE IF Implements(d, "String") THEN "Stringer"
  ELSE IF d.kind = "struct" THEN "struct"
  ELSE IF d.kind = "ptr" THEN "ptr"
  ELSE "unsupported"

\* the loop over []*string with an empty token for a nil element
presentStrings_nilEmpty(v) ==
  [k \in 1..Len(v) |-> IF v[k].set THEN v[k].v ELSE <<>>]

\* the loop over []*string: the present elements, in order
RECURSIVE presentStrings(_)
presentStrings(v) ==
  IF Len(v) = 0 THEN <<>>
  ELSE (IF v[1].set THEN <<v[1].v>> ELSE <<>>) \o presentStrings(Tail(v))

\* reflect.Value.IsZero of a value held in a field or behind an interface
RECURSIVE IsZero(_)
IsZero(d) ==
  CASE d.t = "nil" -> TRUE
    [] d.t = "string" -> d.s = <<>>
    [] d.t = "bool" -> ~d.b
    [] d.t = "pstring" -> ~d.p.set
    [] d.t = "pbool" -> ~d.pb.set
    [] d.t \in {"strings", "pstrings"} -> d.isnil
    [] d.t = "obj" /\ d.kind = "struct" ->
         \A k \in 1..Len(d.fields) : IsZero(d.fields[k].val)
    [] OTHER -> d.isnil

PanicValue == [e |-> "panic"]

\* src/marshal.go: FieldNum is structField.Type.NumField(), which panics
\* unless the field's type is a struct
newMarshalArgFieldError_old(structField, index, err) ==
  IF structField.val.t = "obj" /\ structField.val.kind = "struct"
  THEN MarshalStructFieldError(structField.name, Len(structField.val.fields), err)
  ELSE PanicValue

\* index is structField.Index[0], the 0-based position of the field
newMarshalArgFieldError(structField, index, err) ==
  IF build = "marshal_go" THEN newMarshalArgFieldError_old(structField, index, err)
  ELSE MarshalStructFieldError(structField.name, index, err)

RECURSIVE marshalArgs(_, _)
RECURSIVE marshalStructFields(_, _)
RECURSIVE walkFields(_, _, _, _, _)
RECURSIVE marshalSpec(_, _, _)
RECURSIVE Marshal(_, _, _)
RECURSIVE fieldSpec_marshalArgs(_, _, _)

\* the case of marshalArgs that value d of category cat takes
marshalCase(c, d, cat) ==
  CASE cat = "nil" -> Ok(<<>>, <<>>)
    [] cat = "ArgsMarshaler" ->
         [kind |-> IF d.ma.err = NoErr THEN "ok" ELSE "err",
          toks |-> d.ma.args, err |-> d.ma.err,
          calls |-> <<[id |-> d.ma.id, ctx |-> c]>>]
    [] cat = "string" -> Ok(<<d.s>>, <<>>)
    [] cat = "pstring" -> IF ~d.p.set THEN Ok(<<>>, <<>>) ELSE Ok(<<d.p.v>>, <<>>)
    [] cat = "bool" -> Ok(<<FormatBool(d.b)>>, <<>>)
    [] cat = "pbool" ->
         IF ~d.pb.set THEN Ok(<<>>, <<>>) ELSE Ok(<<FormatBool(d.pb.v)>>, <<>>)
    [] cat = "strings" -> Ok(d.elems, <<>>)
    [] cat = "pstrings" -> Ok(presentStrings(d.pelems), <<>>)
    [] cat = "TextMarshaler" ->
         IF d.text.err # NoErr THEN Fail(d.text.err, <<>>)
         ELSE Ok(<<d.text.text>>, <<>>)
    [] cat = "Stringer" -> Ok(<<d.str>>, <<>>)
    [] cat = "struct" -> marshalStructFields(c, d)
    [] cat = "ptr" ->
         \* reflected.Elem() of a nil pointer is the zero Value, and
         \* CanInterface panics on it
         IF d.isnil THEN Panic(<<>>) ELSE marshalArgs(c, d.elem)
    [] OTHER -> Fail(ErrUnsupported, <<>>)

\* marshalArgs going on with a context of its own
marshalArgs_ownContext(c, d) == marshalCase("background", d, Category(d))

marshalArgs(c, d) == marshalCase(c, d, Category(d))

\* the loop body of marshalStructFields once marshalSpec returned r for
\* field number n (1-based here, n - 1 in the source)
fieldDone(structField, n, args, cl, r) ==
  IF r.kind = "panic" THEN Panic(cl \o r.calls)
  ELSE IF r.err # NoErr
  THEN IF newMarshalArgFieldError(structField, n - 1, r.err) = PanicValue
       THEN Panic(cl \o r.calls)
       ELSE Fail(newMarshalArgFieldError(structField, n - 1, r.err), cl \o r.calls)
  ELSE Ok(args \o r.toks, cl \o r.calls)

\* walkField without the test of CanInterface
walkField_unexported(c, structField, n, args, cl) ==
  fieldDone(structField, n, args, cl,
            marshalSpec(c, structField.tag, structField.val))

\* one iteration of the loop of marshalStructFields, given the args and
\* calls so far
walkField(c, structField, n, args, cl) ==
  IF ~structField.exported THEN Ok(args, cl)
  ELSE fieldDone(structField, n, args, cl,
                 marshalSpec(c, structField.tag, structField.val))

\* the loop goes on after an iteration that returned r, unless it failed
walkOn(c, value, n, r) ==
  IF r.kind # "ok" THEN r
  ELSE walkFields(c, value, n + 1, r.toks, r.calls)

walkFields(c, value, n, args, cl) ==
  IF n > Len(value.fields) THEN Ok(args, cl)
  ELSE walkOn(c, value, n, walkField(c, value.fields[n], n, args, cl))

marshalStructFields(c, value) ==
  IF ~(value.t = "obj" /\ value.kind = "struct") THEN Fail(ErrNotStruct, <<>>)
  ELSE walkFields(c, value, 1, <<>>, <<>>)

marshalSpec(c, specString, value) == Marshal(parseSpec(specString), c, value)

\* apply: --foo=, -foo=
singleArgc(spec, args) ==
  IF spec.SingleArgc.set
  THEN IF Len(args) = 1
       THEN <<F(spec.SingleArgc) \o args[1]>>
       ELSE <<F(spec.SingleArgc) \o Join(args, <<" ">>)>>
  ELSE args

\* apply: the separator
separator(spec, args) ==
  IF spec.Separator.set THEN <<Join(args, F(spec.Separator))>> ELSE args

\* src/marshal.go: what Marshal returns once marshalArgs returned r
Marshal_old_return(spec, r) ==
  IF r.kind = "panic" THEN r
  ELSE IF r.err # NoErr THEN Fail(r.err, r.calls)
  ELSE IF Len(r.toks) = 0 THEN Ok(<<>>, r.calls)
  ELSE Ok(spec.Prepend \o singleArgc(spec, separator(spec, r.toks)) \o spec.Append,
          r.calls)

\* what Marshal returns once spec.marshalArgs returned r
Marshal_return(spec, r) ==
  IF r.kind = "panic" THEN r
  ELSE IF r.err # NoErr THEN Fail(r.err, r.calls)
  ELSE IF Len(r.toks) = 0 THEN Ok(<<>>, r.calls)
  ELSE Ok(spec.Prepend \o singleArgc(spec, r.toks) \o spec.Append, r.calls)

\* Marshal without the early return on OmitField
Marshal_noOmit(spec, c, d) ==
  IF build = "marshal_go" THEN Marshal_old_return(spec, marshalArgs(c, d))
  ELSE Marshal_return(spec, fieldSpec_marshalArgs(spec, c, d))

Marshal(spec, c, d) ==
  IF spec.OmitField THEN Ok(<<>>, <<>>)
  ELSE IF build = "marshal_go" THEN Marshal_old_return(spec, marshalArgs(c, d))
  ELSE Marshal_return(spec, fieldSpec_marshalArgs(spec, c, d))

\* the omitempty test of fieldSpec.marshalArgs:
\* "omit", "panic" or "carry on"
omitEmpty(d) ==
  IF Implements(d, "IsEmpty") /\ d.isEmpty THEN "omit"
  ELSE IF ~Implements(d, "IsEmpty") /\ Implements(d, "IsZero") /\ d.isZero THEN "omit"
  \* reflect.ValueOf(nil) is the zero Value, and IsZero panics on it
  ELSE IF d.t = "nil" THEN "panic"
  ELSE IF IsZero(d) THEN "omit"
  ELSE "carry on"

\* applyBool without the omission of "false" under a true= mapping
applyBool_keepFalse(spec, args) ==
  IF args[1] = <<"t", "r", "u", "e">> /\ F(spec.BoolTrue) # <<>>
  THEN <<F(spec.BoolTrue)>>
  ELSE IF args[1] = <<"f", "a", "l", "s", "e">> /\ F(spec.BoolFalse) # <<>>
  THEN <<F(spec.BoolFalse)>>
  ELSE args

\* apply: true, false
applyBool(spec, args) ==
  IF args[1] = <<"t", "r", "u", "e">> /\ F(spec.BoolTrue) # <<>>
  THEN <<F(spec.BoolTrue)>>
  ELSE IF args[1] = <<"f", "a", "l", "s", "e">>
  THEN IF F(spec.BoolFalse) # <<>> THEN <<F(spec.BoolFalse)>>
       ELSE IF F(spec.BoolTrue) # <<>> THEN <<>>
       ELSE args
  ELSE args

\* what fieldSpec.marshalArgs returns once marshalArgs returned r
\* fieldSpec_return with the boolean substitution on the first token of any
\* number of tokens
fieldSpec_return_firstToken(spec, r) ==
  IF r.kind = "panic" THEN r
  ELSE IF r.err # NoErr THEN Fail(r.err, r.calls)
  ELSE IF Len(r.toks) >= 1 THEN Ok(applyBool(spec, <<r.toks[1]>>), r.calls)
  ELSE Ok(singleArgc(spec, separator(spec, r.toks)), r.calls)

fieldSpec_return(spec, r) ==
  IF r.kind = "panic" THEN r
  ELSE IF r.err # NoErr THEN Fail(r.err, r.calls)
  ELSE IF Len(r.toks) = 1 THEN Ok(applyBool(spec, r.toks), r.calls)
  ELSE Ok(singleArgc(spec, separator(spec, r.toks)), r.calls)

\* what fieldSpec.marshalArgs does after the omitempty test said oe
fieldSpec_dispatch(spec, c, d, oe) ==
  IF oe = "omit" THEN Ok(<<>>, <<>>)
  ELSE IF oe = "panic" THEN Panic(<<>>)
  ELSE fieldSpec_return(spec, marshalArgs(c, d))

fieldSpec_marshalArgs(spec, c, d) ==
  fieldSpec_dispatch(spec, c, d, IF spec.OmitEmpty THEN omitEmpty(d) ELSE "carry on")

(***************************************************************************)
(* The inputs explored.                                                    *)
(***************************************************************************)
kTrue == <<"t", "r", "u", "e">>

kFalse == <<"f", "a", "l", "s", "e">>

kOmitEmpty == <<"o", "m", "i", "t", "e", "m", "p", "t", "y">>

kJoin == <<"j", "o", "i", "n">>

\* "--f" and "--f="
Flag == <<"-", "-", "f">>

FlagEq == <<"-", "-", "f", "=">>

\* the values of true= and false= in the tags: "-d=y" and "-n"
TrueArg == <<"-", "d", "=", "y">>

FalseArg == <<"-", "n">>

\* the elements tags are made of
TagElems ==
  {Flag, FlagEq, <<"-">>, kOmitEmpty, kJoin,
   kTrue \o <<"=">> \o TrueArg, kFalse \o <<"=">> \o FalseArg, <<>>}

SeqsUpTo(S, n) == UNION {[1..m -> S] : m \in 0..n}

Tags == {Join(es, <<",">>) : es \in SeqsUpTo(TagElems, MaxTagElems)}

Contexts == {"background", "cancelled"}

UserErr(id) == [e |-> "user", id |-> id]

\* a struct type that implements ArgsMarshaler (as a struct embedding
\* ArgsMarshalerFunc does) and has an exported field besides
ArgsMarshalerV(id, args, err) ==
  [Obj("struct") EXCEPT
     !.methods = {"MarshalArgs"},
     !.ma = [id |-> id, args |-> args, err |-> err],
     !.fields = <<Field(<<"I", "g", "n", "o", "r", "e", "d">>, TRUE, <<>>,
                        StringV(<<"i">>))>>]

ArgsMarshalers ==
  {ArgsMarshalerV("m1", <<<<"x">>, <<"y">>>>, NoErr),
   ArgsMarshalerV("m2", <<kTrue>>, NoErr),
   ArgsMarshalerV("m3", <<>>, NoErr),
   ArgsMarshalerV("m4", <<<<"x">>>>, UserErr("m4"))}

\* a struct type { Name string } with a String method, and with IsEmpty
\* and/or IsZero methods that answer as given
StringerV(methods, name, isEmpty, isZero) ==
  [Obj("struct") EXCEPT
     !.methods = methods \cup {"String"},
     !.str = <<"s">> \o name,
     !.isEmpty = isEmpty, !.isZero = isZero,
     !.fields = <<Field(<<"N", "a", "m", "e">>, TRUE, <<>>, StringV(name))>>]

Stringers ==
  {StringerV(ms, name, e, z) :
     ms \in SUBSET {"IsEmpty", "IsZero"}, name \in {<<>>, <<"a">>},
     e \in BOOLEAN, z \in BOOLEAN}

TextMarshalers ==
  {[Obj("struct") EXCEPT !.methods = {"MarshalText"},
                         !.text = [text |-> <<"t">>, err |-> NoErr]],
   [Obj("struct") EXCEPT !.methods = {"MarshalText"},
                         !.text = [text |-> kFalse, err |-> NoErr]],
   [Obj("struct") EXCEPT !.methods = {"MarshalText"},
                         !.text = [text |-> <<>>, err |-> UserErr("text")]]}

MapV == Obj("map")

NilPtrV == [Obj("ptr") EXCEPT !.isnil = TRUE]

PtrV(elem) == [Obj("ptr") EXCEPT !.elem = elem]

FieldName(n) == <<"F", ToString(n)>>

\* the struct with the given field declarations [exported, tag, val]
StructV(decls) ==
  [Obj("struct") EXCEPT
     !.fields = [n \in 1..Len(decls) |->
                   Field(FieldName(n), decls[n].exported, decls[n].tag, decls[n].val)]]

Decl(exported, tag, val) == [exported |-> exported, tag |-> tag, val |-> val]

StrElems == {<<"a">>, <<>>, kTrue}

PStrElems == {NilP, P(<<"a">>), P(<<>>)}

Leaves ==
  {StringV(s) : s \in StrElems \cup {kFalse}}
  \cup {PStringV(p) : p \in {NilP, P(<<"a">>), P(kTrue)}}
  \cup {BoolV(b) : b \in BOOLEAN}
  \cup {PBoolV(pb) : pb \in {NilPB, P(TRUE), P(FALSE)}}
  \cup {StringsV(TRUE, <<>>)}
  \cup {StringsV(FALSE, es) : es \in SeqsUpTo(StrElems, MaxLen)}
  \cup {PStringsV(TRUE, <<>>)}
  \cup {PStringsV(FALSE, es) : es \in SeqsUpTo(PStrElems, MaxLen)}
  \cup ArgsMarshalers \cup Stringers \cup TextMarshalers
  \cup {MapV, NilPtrV, NilValue}

\* structs nested in a field
Nested ==
  {StructV(<<Decl(TRUE, Flag, BoolV(TRUE))>>),
   StructV(<<Decl(TRUE, <<>>, StringV(<<"a">>)), Decl(TRUE, <<>>, MapV)>>),
   StructV(<<Decl(TRUE, <<>>, StringV(<<>>))>>),
   PtrV(StructV(<<Decl(TRUE, Flag, StringV(<<"a">>))>>)),
   PtrV(PtrV(StringV(<<"a">>))),
   PtrV(ArgsMarshalerV("m6", <<<<"v">>>>, NoErr))}

FieldVals == Leaves \cup Nested

\* the field declarations of the structs with several fields
CoreDecls ==
  {Decl(TRUE, <<>>, StringV(<<"a">>)),
   Decl(TRUE, Flag, StringV(<<"b">>)),
   Decl(TRUE, FlagEq, PStringV(NilP)),
   Decl(FALSE, <<>>, MapV),
   Decl(TRUE, <<>>, MapV),
   Decl(TRUE, <<>>, ArgsMarshalerV("m1", <<<<"x">>, <<"y">>>>, NoErr)),
   Decl(TRUE, <<>>, ArgsMarshalerV("m4", <<<<"x">>>>, UserErr("m4"))),
   Decl(TRUE, <<"-">>, ArgsMarshalerV("m5", <<<<"z">>>>, NoErr)),
   Decl(TRUE, <<>>, StructV(<<Decl(TRUE, <<>>, StringV(<<"a">>)),
                             Decl(TRUE, <<>>, MapV)>>)),
   Decl(TRUE, <<>>, StructV(<<Decl(TRUE, Flag, BoolV(TRUE))>>)),
   Decl(FALSE, <<>>, ArgsMarshalerV("m7", <<<<"u">>>>, NoErr))}

Structs ==
  {StructV(<<Decl(TRUE, tag, val)>>) : tag \in Tags, val \in FieldVals}
  \cup {StructV(ds) : ds \in SeqsUpTo(CoreDecls, MaxFields)}

Inputs == FieldVals \cup Structs \cup {PtrV(StructV(<<Decl(TRUE, Flag, MapV)>>))}

(***************************************************************************)
(* The state machine: one call MarshalArgs(ctx, data).  `cur` is the       *)
(* argument of the marshalArgs call in progress; the fields of the struct  *)
(* it reaches are marshaled one per step.                                  *)
(***************************************************************************)
NoField == Field(<<>>, FALSE, <<>>, NilValue)

NoLast == [step |-> "none", index |-> 0, field |-> NoField, r |-> Ok(<<>>, <<>>)]

NoResult == [kind |-> "none", toks |-> <<>>, err |-> NoErr, calls |-> <<>>]

\* the state at the call, whatever the revision
InitCall ==
  /\ ctx \in Contexts
  /\ data \in Inputs
  /\ cur = data
  /\ pc = "call"
  /\ i = 0
  /\ marshaledArgs = <<>>
  /\ calls = <<>>
  /\ last = NoLast
  /\ result = NoResult

Init == build = "part_000" /\ InitCall

InitMarshalGo == build = "marshal_go" /\ InitCall

\* marshalArgs on a value that is neither walked nor dereferenced
MarshalValue ==
  /\ pc = "call"
  /\ Category(cur) \notin {"struct", "ptr"}
  /\ LET r == marshalArgs(ctx, cur) IN
       /\ result' = r
       /\ calls' = r.calls
  /\ pc' = "done"
  /\ UNCHANGED <<build, ctx, data, cur, i, marshaledArgs, last>>

\* case reflect.Ptr: unwrap and marshal again on the target
Deref ==
  /\ pc = "call"
  /\ Category(cur) = "ptr"
  /\ IF cur.isnil
     THEN /\ result' = Panic(<<>>)
          /\ pc' = "done"
          /\ cur' = cur
     ELSE /\ cur' = cur.elem
          /\ UNCHANGED <<result, pc>>
  /\ UNCHANGED <<build, ctx, data, i, marshaledArgs, calls, last>>

\* case reflect.Struct: marshalStructFields starts its loop
EnterStruct ==
  /\ pc = "call"
  /\ Category(cur) = "struct"
  /\ pc' = "walk"
  /\ i' = 1
  /\ marshaledArgs' = <<>>
  /\ UNCHANGED <<build, ctx, data, cur, calls, last, result>>

\* WalkStep with a loop that goes on after a field failed
WalkStep_goOn(structField, r) ==
  /\ last' = [step |-> IF structField.exported THEN "marshaled" ELSE "skipped",
              index |-> i, field |-> structField, r |-> r]
  /\ marshaledArgs' = marshaledArgs \o r.toks
  /\ calls' = calls \o r.calls
  /\ i' = i + 1
  /\ UNCHANGED <<pc, result>>

\* the state after an iteration of the loop on field structField, which
\* returned r
WalkStep(structField, r) ==
  /\ last' = [step |-> IF structField.exported THEN "marshaled" ELSE "skipped",
              index |-> i, field |-> structField, r |-> r]
  /\ IF r.kind = "ok"
     THEN /\ marshaledArgs' = marshaledArgs \o r.toks
          /\ calls' = calls \o r.calls
          /\ i' = i + 1
          /\ UNCHANGED <<pc, result>>
     ELSE /\ result' = [r EXCEPT !.calls = calls \o r.calls]
          /\ calls' = calls \o r.calls
          /\ pc' = "done"
          /\ UNCHANGED <<marshaledArgs, i>>

\* one iteration of the loop of marshalStructFields
WalkField ==
  /\ pc = "walk"
  /\ i <= Len(cur.fields)
  /\ WalkStep(cur.fields[i], walkField(ctx, cur.fields[i], i, <<>>, <<>>))
  /\ UNCHANGED <<build, ctx, data, cur>>

\* return marshaledArgs, nil
WalkReturn ==
  /\ pc = "walk"
  /\ i > Len(cur.fields)
  /\ result' = Ok(marshaledArgs, calls)
  /\ pc' = "done"
  /\ UNCHANGED <<build, ctx, data, cur, i, marshaledArgs, calls, last>>

Next == MarshalValue \/ Deref \/ EnterStruct \/ WalkField \/ WalkReturn

Spec == Init /\ [][Next]_vars

SpecMarshalGo == InitMarshalGo /\ [][Next]_vars

\* the stepwise call returns what the recursive definition returns
ResultIsMarshalArgs == pc = "done" => result = marshalArgs(ctx, data)

(***************************************************************************)
(* Properties.  After WalkField, `last` holds the field just marshaled and *)
(* what marshaling it returned.                                            *)
(***************************************************************************)
Marshaled == last.step = "marshaled"

LastTag == last.field.tag

LastVal == last.field.val

\* the elements of the last field's tag, and the first of them
LastElems == Split(LastTag, ",")

LastFirst == LastElems[1]

\* the tag is an omission directive
IsOmitTag(tag) == tag = <<"-">> \/ HasPrefix(tag, <<"-", ",">>)

HasElem(tag, e) == \E n \in 1..Len(Split(tag, ",")) : Split(tag, ",")[n] = e

\* the tag holds a true= or a false= element
HasBoolElem(tag) ==
  \E n \in 1..Len(Split(tag, ",")) :
    \/ HasPrefix(Split(tag, ",")[n], kTrue \o <<"=">>)
    \/ HasPrefix(Split(tag, ",")[n], kFalse \o <<"=">>)

\* what dispatching the last field's value alone returns
LastRaw == marshalArgs(ctx, LastVal)

\* C1: a field whose tag starts with a single-token prefix (--flag=), and
\* sets neither omitempty nor a boolean mapping, and whose value marshals to
\* n >= 1 tokens, contributes exactly one token: the prefix followed by the
\* n tokens joined with single spaces.
C1_SingleTokenPrefix ==
  (/\ Marshaled
   /\ ~IsOmitTag(LastTag)
   /\ HasPrefix(LastFirst, <<"-">>) /\ HasSuffix(LastFirst, <<"=">>)
   /\ ~HasElem(LastTag, kOmitEmpty) /\ ~HasBoolElem(LastTag)
   /\ LastRaw.kind = "ok" /\ Len(LastRaw.toks) >= 1)
  => /\ last.r.kind = "ok"
     /\ last.r.toks = <<LastFirst \o Join(LastRaw.toks, <<" ">>)>>

\* C2: a field whose tag holds the join keyword (and no single-token prefix)
\* and whose value is a []string of more than one element contributes the
\* elements joined by "," as one token, after the --flag of the tag if any.
C2_JoinKeyword ==
  (/\ Marshaled
   /\ ~IsOmitTag(LastTag)
   /\ HasElem(LastTag, kJoin)
   /\ ~HasSuffix(LastFirst, <<"=">>)
   /\ LastVal.t = "strings" /\ Len(LastVal.elems) > 1)
  => /\ last.r.kind = "ok"
     /\ last.r.toks =
          (IF HasPrefix(LastFirst, <<"-">>) THEN <<LastFirst>> ELSE <<>>)
          \o <<Join(LastVal.elems, <<",">>)>>

\* C3: marshaling a nil pointer to a struct, given to MarshalArgs or held in
\* a field whose tag neither omits it nor says omitempty, returns no tokens
\* and no error, and does not panic.
C3_NilPointer ==
  /\ (pc = "done" /\ data = NilPtrV) => result = Ok(<<>>, <<>>)
  /\ (Marshaled /\ LastVal = NilPtrV /\ ~IsOmitTag(LastTag)
        /\ ~HasElem(LastTag, kOmitEmpty))
     => last.r = Ok(<<>>, <<>>)

\* C4: MarshalArgs on a value that implements ArgsMarshaler returns exactly
\* the tokens and the error of its MarshalArgs method, invoked once with the
\* caller's context; no field of the value is walked.
C4_ArgsMarshalerWins ==
  (pc = "done" /\ Implements(data, "MarshalArgs"))
  => /\ result.toks = data.ma.args
     /\ result.err = data.ma.err
     /\ result.calls = <<[id |-> data.ma.id, ctx |-> ctx]>>
     /\ last.step = "none"

C4_Witness ==
  /\ pc = "done"
  /\ Implements(data, "MarshalArgs")
  /\ Len(data.fields) > 0 /\ data.fields[1].exported
  /\ result.toks = <<<<"x">>, <<"y">>>>

\* the tag is made of true=T and false=F elements (and empty ones) only
OnlyBoolElems(tag) ==
  \A n \in 1..Len(Split(tag, ",")) :
    Split(tag, ",")[n] \in
      {kTrue \o <<"=">> \o TrueArg, kFalse \o <<"=">> \o FalseArg, <<>>}

\* C5: a bool field tagged true=T: true gives [T]; false gives [F] when
\* false=F is given too and nothing when it is not; a bool field with
\* neither gives the literal "true" / "false".
C5_BoolMapping ==
  (Marshaled /\ LastVal.t = "bool" /\ OnlyBoolElems(LastTag))
  => /\ last.r.kind = "ok"
     /\ last.r.toks =
          IF HasElem(LastTag, kTrue \o <<"=">> \o TrueArg)
          THEN IF LastVal.b THEN <<TrueArg>>
               ELSE IF HasElem(LastTag, kFalse \o <<"=">> \o FalseArg)
               THEN <<FalseArg>>
               ELSE <<>>
          ELSE IF HasElem(LastTag, kFalse \o <<"=">> \o FalseArg)
          THEN (IF LastVal.b THEN <<kTrue>> ELSE <<FalseArg>>)
          ELSE <<FormatBool(LastVal.b)>>

C5_Witness ==
  /\ Marshaled
  /\ LastVal = BoolV(FALSE)
  /\ LastTag = kTrue \o <<"=">> \o TrueArg
  /\ last.r = Ok(<<>>, <<>>)

\* C6: with omitempty, a value that has an IsEmpty method is omitted exactly
\* when IsEmpty says so, and otherwise a value that has an IsZero method is
\* omitted exactly when IsZero says so: when the method says false the value
\* is marshaled even if it is the zero value of its type.
C6_FirstCheckDecides ==
  (/\ Marshaled
   /\ LastTag = kOmitEmpty
   /\ (Implements(LastVal, "IsEmpty") \/ Implements(LastVal, "IsZero")))
  => last.r =
       IF (IF Implements(LastVal, "IsEmpty") THEN LastVal.isEmpty ELSE LastVal.isZero)
       THEN Ok(<<>>, <<>>)
       ELSE LastRaw

\* C7: when marshaling exported field number n fails, the walk returns a
\* MarshalStructFieldError with that field's name, with FieldNum = n, and
\* whose Unwrap is the cause; building it does not panic.
C7_FieldError ==
  (/\ pc = "done" /\ Marshaled /\ cur = data
   /\ marshalSpec(ctx, LastTag, LastVal).kind = "err")
  => /\ result.kind = "err"
     /\ result.err.e = "MarshalStructFieldError"
     /\ result.err.FieldName = last.field.name
     /\ result.err.FieldNum = last.index - 1
     /\ Unwrap(result.err) = marshalSpec(ctx, LastTag, LastVal).err

\* C8: a field whose tag is "-" or starts with "-," contributes no tokens
\* and no error whatever its value, and the value is not dispatched: no
\* MarshalArgs method is invoked.
C8_OmittedField ==
  (Marshaled /\ IsOmitTag(LastTag)) => last.r = Ok(<<>>, <<>>)

C8_Witness ==
  /\ Marshaled
  /\ HasPrefix(LastTag, <<"-", ",">>)
  /\ LastVal \in {MapV, NilPtrV} \cup ArgsMarshalers
  /\ LastRaw.kind # "ok"
  /\ last.r = Ok(<<>>, <<>>)

\* C9: a field whose tag gives a flag (--flag) or a single-token prefix
\* (--flag=) contributes no tokens when its value marshals to none; a field
\* tagged --flag alone whose value marshals to some tokens contributes --flag
\* followed by those tokens.
C9_NoFlagWithoutValue ==
  (/\ Marshaled
   /\ ~IsOmitTag(LastTag)
   /\ HasPrefix(LastFirst, <<"-">>)
   /\ LastVal.t # "nil"
   /\ LastRaw.kind = "ok")
  => /\ Len(LastRaw.toks) = 0 => last.r = Ok(<<>>, LastRaw.calls)
     /\ (Len(LastRaw.toks) > 0 /\ LastTag = Flag)
        => last.r = Ok(<<Flag>> \o LastRaw.toks, LastRaw.calls)

\* the tag without its omitempty elements (which are not its first element)
RECURSIVE WithoutOmitEmpty(_)
WithoutOmitEmpty(elems) ==
  IF Len(elems) = 0 THEN <<>>
  ELSE (IF elems[1] = kOmitEmpty THEN <<>> ELSE <<elems[1]>>)
       \o WithoutOmitEmpty(Tail(elems))

\* the values whose zero value the omitempty test finds by reflection
NoEmptyMethod(d) == ~Implements(d, "IsEmpty") /\ ~Implements(d, "IsZero")

\* C10: a field tagged omitempty whose value is the zero value of its type
\* contributes no tokens and no error; whose value is not, contributes what
\* the same tag without omitempty gives.
C10_OmitEmpty ==
  (/\ Marshaled
   /\ ~IsOmitTag(LastTag)
   /\ HasElem(LastTag, kOmitEmpty)
   /\ LastFirst # kOmitEmpty \/ LastTag = kOmitEmpty
   /\ NoEmptyMethod(LastVal))
  => last.r =
       IF IsZero(LastVal) THEN Ok(<<>>, <<>>)
       ELSE walkField(ctx, [last.field EXCEPT
                              !.tag = Join(WithoutOmitEmpty(LastElems), <<",">>)],
                      last.index, <<>>, <<>>)

\* what marshaling field f alone returns
FieldResult(f) == marshalSpec(ctx, f.tag, f.val)

\* the number of the first exported field whose marshaling does not return
\* normally, 0 when there is none
FirstNotOk(fields) ==
  IF \E n \in 1..Len(fields) : fields[n].exported /\ FieldResult(fields[n]).kind # "ok"
  THEN CHOOSE n \in 1..Len(fields) :
         /\ fields[n].exported /\ FieldResult(fields[n]).kind # "ok"
         /\ \A m \in 1..(n - 1) :
              ~(fields[m].exported /\ FieldResult(fields[m]).kind # "ok")
  ELSE 0

\* the MarshalArgs invocations of fields 1..n, each exported field
\* dispatched once, in declaration order
RECURSIVE CallsOf(_, _)
CallsOf(fields, n) ==
  IF n = 0 THEN <<>>
  ELSE CallsOf(fields, n - 1)
       \o (IF fields[n].exported THEN FieldResult(fields[n]).calls ELSE <<>>)

\* C11: the walk dispatches the fields in declaration order and is
\* fail-fast: when the first failing exported field is number n, the result
\* is an error with no tokens, the fields up to n were each dispatched once
\* and no field after n is dispatched.
C11_FailFast ==
  (pc \in {"walk", "done"} /\ Category(cur) = "struct")
  => /\ pc = "walk" =>
          /\ calls = CallsOf(cur.fields, i - 1)
          /\ FirstNotOk(cur.fields) \in {0} \cup (i..Len(cur.fields))
     /\ (/\ pc = "done"
         /\ FirstNotOk(cur.fields) > 0
         /\ FieldResult(cur.fields[FirstNotOk(cur.fields)]).kind = "err")
        => /\ result.kind = "err"
           /\ result.toks = <<>>
           /\ result.err.e = "MarshalStructFieldError"
           /\ result.calls = CallsOf(cur.fields, FirstNotOk(cur.fields))
           /\ last.index = FirstNotOk(cur.fields)
           /\ i = FirstNotOk(cur.fields)

C11_Witness ==
  /\ pc = "done"
  /\ Category(cur) = "struct"
  /\ Len(cur.fields) = 2
  /\ cur.fields[1].exported /\ cur.fields[1].val = MapV
  /\ cur.fields[2].exported /\ cur.fields[2].tag = <<>>
  /\ Implements(cur.fields[2].val, "MarshalArgs")
  /\ result.kind = "err" /\ result.toks = <<>> /\ result.calls = <<>>

\* the tokens fields 1..n contribute: an unexported field nothing, a nested
\* struct without directive the tokens of its own fields, any other field
\* what its value marshals to under its directive
RECURSIVE ExpectedToks(_, _)
ExpectedToks(fields, n) ==
  IF n = 0 THEN <<>>
  ELSE ExpectedToks(fields, n - 1)
       \o (IF ~fields[n].exported THEN <<>>
           ELSE IF fields[n].tag = <<>> /\ Category(fields[n].val) = "struct"
           THEN ExpectedToks(fields[n].val.fields, Len(fields[n].val.fields))
           ELSE FieldResult(fields[n]).toks)

\* C12: on success the tokens of a struct are the concatenation, in
\* declaration order, of what each exported field contributes under its
\* directive, a nested struct contributing the tokens of its own walk; an
\* unexported field contributes nothing, is not dispatched and cannot make
\* the walk fail.
C12_Concatenation ==
  (pc \in {"walk", "done"} /\ Category(cur) = "struct")
  => /\ pc = "walk" => marshaledArgs = ExpectedToks(cur.fields, i - 1)
     /\ (pc = "done" /\ result.kind = "ok")
        => result.toks = ExpectedToks(cur.fields, Len(cur.fields))
     /\ (pc = "done" /\ FirstNotOk(cur.fields) = 0) => result.kind = "ok"
     /\ last.step = "skipped" => last.r = Ok(<<>>, <<>>)
     /\ \A k \in 1..Len(calls) : calls[k].id # "m7"

C12_Witness ==
  /\ pc = "done"
  /\ Category(cur) = "struct"
  /\ Len(cur.fields) = 2
  /\ ~cur.fields[1].exported /\ cur.fields[1].val = MapV
  /\ cur.fields[2].exported /\ Category(cur.fields[2].val) = "struct"
  /\ result = Ok(<<Flag, kTrue>>, <<>>)

\* the position in v of its j-th present element
PresentIndex(v, j) ==
  CHOOSE k \in 1..Len(v) :
    /\ v[k].set
    /\ Cardinality({m \in 1..k : v[m].set}) = j

\* C13: a sequence of optional strings encodes without error to the values
\* of its present elements in their order: absent elements are skipped, a
\* present empty string stays an empty token, and there are as many tokens
\* as present elements.
C13_OptionalStrings ==
  (pc = "done" /\ data.t = "pstrings")
  => /\ result.kind = "ok" /\ result.err = NoErr
     /\ Len(result.toks) = Cardinality({k \in 1..Len(data.pelems) : data.pelems[k].set})
     /\ \A j \in 1..Len(result.toks) :
          result.toks[j] = data.pelems[PresentIndex(data.pelems, j)].v

C13_Witness ==
  /\ pc = "done"
  /\ data.t = "pstrings"
  /\ Len(data.pelems) = 2
  /\ ~data.pelems[1].set
  /\ data.pelems[2] = P(<<>>)
  /\ result = Ok(<< <<>> >>, <<>>)

\* a result without the contexts its invocations were given
WithoutContexts(r) ==
  [kind |-> r.kind, toks |-> r.toks, err |-> r.err,
   ids |-> [k \in 1..Len(r.calls) |-> r.calls[k].id]]

\* the value is an ArgsMarshaler, or a pointer to one
ReachesArgsMarshaler(d) ==
  \/ Implements(d, "MarshalArgs")
  \/ Category(d) = "ptr" /\ ~d.isnil /\ Implements(d.elem, "MarshalArgs")

ReachedId(d) == IF Implements(d, "MarshalArgs") THEN d.ma.id ELSE d.elem.ma.id

\* C14: every MarshalArgs method reached, directly, in a field under its
\* directive, in a nested walk or behind a pointer, is invoked once with the
\* context given to MarshalArgs, and the result does not depend on that
\* context.
C14_ContextForwarded ==
  /\ \A k \in 1..Len(calls) : calls[k].ctx = ctx
  /\ pc = "done" => \A k \in 1..Len(result.calls) : result.calls[k].ctx = ctx
  /\ (pc = "done" /\ ReachesArgsMarshaler(data))
     => result.calls = <<[id |-> ReachedId(data), ctx |-> ctx]>>
  /\ (Marshaled /\ ReachesArgsMarshaler(LastVal) /\ ~IsOmitTag(LastTag))
     => last.r.calls = <<[id |-> ReachedId(LastVal), ctx |-> ctx]>>
  /\ pc = "done"
     => \A c \in Contexts :
          WithoutContexts(marshalArgs(c, data)) = WithoutContexts(result)

C14_Witness ==
  /\ pc = "done"
  /\ ctx = "cancelled"
  /\ Marshaled
  /\ LastTag = FlagEq \o <<",">> \o kOmitEmpty
  /\ LastVal = PtrV(ArgsMarshalerV("m6", <<<<"v">>>>, NoErr))
  /\ result.kind = "ok"
  /\ result.calls = <<[id |-> "m6", ctx |-> "cancelled"]>>

\* what a tag of true= / false= elements makes of the one token text
BoolSubstitution(tag, text) ==
  IF text = kTrue
  THEN IF HasElem(tag, kTrue \o <<"=">> \o TrueArg) THEN <<TrueArg>> ELSE <<kTrue>>
  ELSE IF HasElem(tag, kFalse \o <<"=">> \o FalseArg) THEN <<FalseArg>>
  ELSE IF HasElem(tag, kTrue \o <<"=">> \o TrueArg) THEN <<>>
  ELSE <<kFalse>>

\* C15: the true= / false= mapping goes by the token, not by the type of the
\* field: a value of any type that marshals to the one token "true" or
\* "false" is mapped as a bool is, "false" being suppressed when only true=
\* is given; a value that marshals to two tokens or more is left as it is.
C15_BoolByText ==
  (Marshaled /\ OnlyBoolElems(LastTag) /\ LastRaw.kind = "ok")
  => /\ (Len(LastRaw.toks) = 1 /\ LastRaw.toks[1] \in {kTrue, kFalse})
        => last.r = Ok(BoolSubstitution(LastTag, LastRaw.toks[1]), LastRaw.calls)
     /\ Len(LastRaw.toks) >= 2 => last.r = LastRaw

C15_Witness ==
  /\ Marshaled
  /\ LastTag = kTrue \o <<"=">> \o TrueArg
  /\ Implements(LastVal, "MarshalText")
  /\ LastRaw = Ok(<<kFalse>>, <<>>)
  /\ last.r = Ok(<<>>, <<>>)

====
